---- MODULE Spec2Model ----
(***************************************************************************)
(* Ankify: the card parser (parseAnkiCards), the card-to-note field        *)
(* mapping (addNotesToAnki) and the card-selection dialog                  *)
(* (SelectableCardsModal) of src/main.ts.                                  *)
(*                                                                         *)
(* A JavaScript string is a sequence of one-character strings, so that     *)
(* trim, split, startsWith and the regular expressions are computed on     *)
(* characters as the code computes them.                                   *)
(***************************************************************************)
EXTENDS Integers, Sequences, FiniteSets, TLC

VARIABLES
  input,    \* the pieces the text under parse is written from
  text,     \* the argument of parseAnkiCards
  pc,       \* "start" before the call, "done" after it, "open" once the
            \* dialog is open; "mapping" and "mapped" around the card callback
  format,   \* the branch of parseAnkiCards that ran: its console.log
  cards,    \* the cards parseAnkiCards returned
  threw,    \* whether parseAnkiCards raised
  note,     \* what the card callback of addNotesToAnki came to
  selectedCards,     \* SelectableCardsModal: one boolean per card
  selectAllChecked,  \* the state of the select-all checkbox
  deckName,          \* SelectableCardsModal.deckName
  noteType,          \* SelectableCardsModal.noteType
  settings,          \* plugin.settings, and how often it was written to disk
  closed,            \* whether the dialog was closed
  clicks,            \* one record per click on the add-to-Anki button
  requests,          \* the addNotes requests sent to Anki Connect
  inputs,            \* the inputs the dialog drew for each card
  edits              \* how many changes the user made to the inputs of the cards

modalVars ==
  <<selectedCards, selectAllChecked, deckName, noteType, settings, closed,
    clicks, requests, inputs, edits>>

vars == <<input, text, pc, format, cards, threw, note, modalVars>>

-----------------------------------------------------------------------------
(* JavaScript values *)

\* the value undefined, kept apart from every string (no character is "undefined")
Undefined == <<"undefined">>

\* undefined where a list of strings is expected (card.tags)
UndefinedList == <<Undefined>>

Min(S) == CHOOSE x \in S : \A y \in S : x <= y
Max(S) == CHOOSE x \in S : \A y \in S : x >= y

\* \s of a regular expression and the characters String.prototype.trim removes
WhiteSpace == {" ", "\t", "\n"}

\* the case folding of the /i flag, letter by letter
Folded ==
  [A |-> "a", B |-> "b", C |-> "c", D |-> "d", E |-> "e", F |-> "f", G |-> "g",
   H |-> "h", I |-> "i", J |-> "j", K |-> "k", L |-> "l", M |-> "m", N |-> "n",
   O |-> "o", P |-> "p", Q |-> "q", R |-> "r", S |-> "s", T |-> "t", U |-> "u",
   V |-> "v", W |-> "w", X |-> "x", Y |-> "y", Z |-> "z"]

Lower(c) == IF c \in DOMAIN Folded THEN Folded[c] ELSE c

\* s.substring(from - 1): the characters of s from position from (1-based) on
Substring(s, from) == SubSeq(s, from, Len(s))

\* s.trim()
Trim(s) ==
  LET keep == {i \in DOMAIN s : s[i] \notin WhiteSpace}
  IN  IF keep = {} THEN <<>> ELSE SubSeq(s, Min(keep), Max(keep))

\* the literal p occurs in s at position i
MatchAt(s, i, p) ==
  /\ i >= 1
  /\ i + Len(p) - 1 <= Len(s)
  /\ \A k \in DOMAIN p : s[i + k - 1] = p[k]

\* the literal p occurs in s at position i, under the /i flag
MatchAtCI(s, i, p) ==
  /\ i >= 1
  /\ i + Len(p) - 1 <= Len(s)
  /\ \A k \in DOMAIN p : Lower(s[i + k - 1]) = Lower(p[k])

\* s.startsWith(p)
StartsWith(s, p) == MatchAt(s, 1, p)

\* s.includes(p)
Includes(s, p) == \E i \in DOMAIN s : MatchAt(s, i, p)

\* p occurs in s under the /i flag
IncludesCI(s, p) == \E i \in DOMAIN s : MatchAtCI(s, i, p)

\* the first position >= from where p occurs in s under /i, 0 when there is none
FirstCI(s, p, from) ==
  LET at == {i \in from..Len(s) : MatchAtCI(s, i, p)}
  IN  IF at = {} THEN 0 ELSE Min(at)

\* the end of the run of whitespace that starts at position i (i - 1 when s[i] is none)
RECURSIVE SkipWs(_, _)
SkipWs(s, i) ==
  IF i <= Len(s) /\ s[i] \in WhiteSpace THEN SkipWs(s, i + 1) ELSE i

\* s.split(d) for a non-empty literal d
RECURSIVE SplitLit(_, _)
SplitLit(s, d) ==
  LET at == {i \in DOMAIN s : MatchAt(s, i, d)}
  IN  IF at = {} THEN <<s>>
      ELSE LET i == Min(at)
           IN  <<SubSeq(s, 1, i - 1)>> \o SplitLit(Substring(s, i + Len(d)), d)

\* s.split(/[sep]{least,}/): the pieces between the maximal runs, of at least
\* `least` characters, of characters of sep
RECURSIVE SplitRuns(_, _, _)
SplitRuns(s, sep, least) ==
  LET at == {i \in DOMAIN s :
               /\ i + least - 1 <= Len(s)
               /\ \A k \in i..(i + least - 1) : s[k] \in sep}
  IN  IF at = {} THEN <<s>>
      ELSE LET i == Min(at)
               stop == Min({j \in (i + least)..(Len(s) + 1) :
                              j = Len(s) + 1 \/ s[j] \notin sep})
           IN  <<SubSeq(s, 1, i - 1)>> \o SplitRuns(Substring(s, stop), sep, least)

\* text.split(/\n\s*\n+/): a separator starts at a newline and runs to the last
\* newline of the whitespace that follows it
RECURSIVE SplitBlankLines(_)
SplitBlankLines(s) ==
  LET LastNl(i) ==
        LET nls == {j \in (i + 1)..(SkipWs(s, i + 1) - 1) : s[j] = "\n"}
        IN  IF nls = {} THEN 0 ELSE Max(nls)
      at == {i \in DOMAIN s : s[i] = "\n" /\ LastNl(i) # 0}
  IN  IF at = {} THEN <<s>>
      ELSE LET i == Min(at)
           IN  <<SubSeq(s, 1, i - 1)>> \o SplitBlankLines(Substring(s, LastNl(i) + 1))

\* Array.prototype.map and filter
RECURSIVE MapTrim(_)
MapTrim(xs) ==
  IF xs = <<>> THEN <<>> ELSE <<Trim(Head(xs))>> \o MapTrim(Tail(xs))

\* xs.filter((x) => x.trim())
FilterNonBlank(xs) == SelectSeq(xs, LAMBDA x : Trim(x) # <<>>)

\* xs.filter((x) => x) and xs.filter((x) => x.length > 0)
FilterNonEmpty(xs) == SelectSeq(xs, LAMBDA x : x # <<>>)

-----------------------------------------------------------------------------
(* parseAnkiCards *)

QMark == <<"Q", ":">>
AMark == <<"A", ":">>
AnnotationMark == <<"a", "n", "n", "o", "t", "a", "t", "i", "o", "n", ":">>
TagsMark == <<"t", "a", "g", "s", ":">>
Hash == <<"#">>
Newline == <<"\n">>
Tab == <<"\t">>
TripleColon == <<":", ":", ":">>

\* const card: AnkiCard = { question: "", answer: "" }
EmptyCard ==
  [question |-> <<>>, answer |-> <<>>, annotation |-> Undefined, tags |-> UndefinedList]

\* isMultiLineFormat with the Q: anchored at the start of a line
isMultiLineFormat_anchored(t) ==
  \E i \in DOMAIN t :
    /\ i = 1 \/ t[i - 1] = "\n"
    /\ MatchAtCI(t, i, QMark)
    /\ \E j \in (i + 2)..Len(t) :
         /\ \A k \in (i + 2)..(j - 1) : t[k] # "\n"
         /\ t[j] = "\n"
         /\ MatchAtCI(t, j + 1, AMark)

\* /Q:.*\nA:.*(\nannotation:.*)?(\ntags:.*)?/i.test(text)
isMultiLineFormat(t) ==
  \E i \in DOMAIN t :
    /\ MatchAtCI(t, i, QMark)
    /\ \E j \in (i + 2)..Len(t) :
         /\ \A k \in (i + 2)..(j - 1) : t[k] # "\n"
         /\ t[j] = "\n"
         /\ MatchAtCI(t, j + 1, AMark)

\* the tags of a tags: line of a block
multiLineTags(tagsText) ==
  IF Includes(tagsText, Hash)
  THEN FilterNonEmpty(MapTrim(SplitLit(tagsText, Hash)))
  ELSE FilterNonEmpty(MapTrim(SplitRuns(tagsText, WhiteSpace \cup {","}, 1)))

\* blockLine with the question kept untrimmed (line.substring(2))
blockLine_untrimmed(card, line) ==
  IF StartsWith(line, QMark)
  THEN [card EXCEPT !.question = Substring(line, 3)]
  ELSE IF StartsWith(line, AMark)
  THEN [card EXCEPT !.answer = Trim(Substring(line, 3))]
  ELSE IF StartsWith(line, AnnotationMark)
  THEN [card EXCEPT !.annotation = Trim(Substring(line, 12))]
  ELSE IF StartsWith(line, TagsMark)
  THEN [card EXCEPT !.tags = multiLineTags(Trim(Substring(line, 6)))]
  ELSE card

\* one line of a block, applied to the card built so far
blockLine(card, line) ==
  IF StartsWith(line, QMark)
  THEN [card EXCEPT !.question = Trim(Substring(line, 3))]
  ELSE IF StartsWith(line, AMark)
  THEN [card EXCEPT !.answer = Trim(Substring(line, 3))]
  ELSE IF StartsWith(line, AnnotationMark)
  THEN [card EXCEPT !.annotation = Trim(Substring(line, 12))]
  ELSE IF StartsWith(line, TagsMark)
  THEN [card EXCEPT !.tags = multiLineTags(Trim(Substring(line, 6)))]
  ELSE card

\* blockLines with the scan of the block ended after its first Q: and A:
RECURSIVE blockLines_firstPair(_, _)
blockLines_firstPair(card, lines) ==
  IF lines = <<>> \/ (card.question # <<>> /\ card.answer # <<>>) THEN card
  ELSE blockLines_firstPair(blockLine(card, Head(lines)), Tail(lines))

RECURSIVE blockLines(_, _)
blockLines(card, lines) ==
  IF lines = <<>> THEN card
  ELSE blockLines(blockLine(card, Head(lines)), Tail(lines))

\* the card of one block
blockCard(block) ==
  blockLines(EmptyCard, FilterNonEmpty(MapTrim(SplitLit(block, Newline))))

\* text.split(/\n\s*\n+/).filter((block) => block.trim())
cardBlocks(t) == FilterNonBlank(SplitBlankLines(t))

RECURSIVE multiLineCards(_)
multiLineCards(blocks) ==
  IF blocks = <<>> THEN <<>>
  ELSE LET card == blockCard(Head(blocks))
       IN  (IF card.question # <<>> /\ card.answer # <<>> THEN <<card>> ELSE <<>>)
             \o multiLineCards(Tail(blocks))

\* xs[k - 1] of a JavaScript array: undefined past the end
At(xs, k) == IF k \in DOMAIN xs THEN xs[k] ELSE Undefined

\* v.trim(), a TypeError (undefined here) when v is undefined
TrimOf(v) == IF v = Undefined THEN Undefined ELSE Trim(v)

\* text.split("\n").filter((line) => line.trim())
nonEmptyLines(t) == FilterNonBlank(SplitLit(t, Newline))

\* /^Q[\t\s]+A[\t\s]+annotation[\t\s]+tags$/i.test(headerLine)
isTableFormat(headerLine) ==
  LET a == SkipWs(headerLine, 2)
      n == SkipWs(headerLine, a + 1)
      g == SkipWs(headerLine, n + 10)
  IN  /\ MatchAtCI(headerLine, 1, <<"Q">>)
      /\ a > 2
      /\ MatchAtCI(headerLine, a, <<"A">>)
      /\ n > a + 1
      /\ MatchAtCI(headerLine, n, SubSeq(AnnotationMark, 1, 10))
      /\ g > n + 10
      /\ MatchAtCI(headerLine, g, SubSeq(TagsMark, 1, 4))
      /\ g + 3 = Len(headerLine)

\* tableTags with the '#' rule alone, as the fallback format has it
tableTags_hashOnly(tagsText) ==
  FilterNonEmpty(MapTrim(SplitLit(tagsText, Hash)))

\* the tags of the fourth column of a table row
tableTags(tagsText) ==
  IF Includes(tagsText, Hash)
  THEN FilterNonEmpty(MapTrim(SplitLit(tagsText, Hash)))
  ELSE FilterNonEmpty(MapTrim(SplitRuns(tagsText, WhiteSpace \cup {","}, 1)))

\* tableParts splitting on tabs alone
tableParts_tabsOnly(line) == SplitLit(line, Tab)

\* the columns of a data row
tableParts(line) ==
  IF Includes(line, Tab) THEN SplitLit(line, Tab) ELSE SplitRuns(line, WhiteSpace, 2)

\* one data row (lines[i].trim()): the cards it adds, and whether it raised
tableRow(line) ==
  LET parts == tableParts(line)
      question == TrimOf(At(parts, 1))
      answer == TrimOf(At(parts, 2))
      annotation ==
        IF Len(parts) >= 3 /\ Trim(parts[3]) # <<>> THEN Trim(parts[3]) ELSE Undefined
      tags ==
        IF Len(parts) >= 4 /\ Trim(parts[4]) # <<>>
        THEN tableTags(Trim(parts[4]))
        ELSE UndefinedList
  IN  IF Len(parts) >= 2
      THEN [threw |-> question = Undefined \/ answer = Undefined,
            cards |-> <<[question |-> question, answer |-> answer,
                         annotation |-> annotation, tags |-> tags]>>]
      ELSE [threw |-> FALSE, cards |-> <<>>]

\* the first position f >= from where the lazy group (.*?) may stop: the end of
\* the line, or whitespace followed by one of the markers
LazyStop(line, from, marks) ==
  Min({f \in from..(Len(line) + 1) :
         \/ f = Len(line) + 1
         \/ \E m \in marks : MatchAtCI(line, SkipWs(line, f), m)})

\* qaMatch with a greedy first group: the question runs up to the last A:
qaMatch_greedy(line) ==
  LET q == FirstCI(line, QMark, 1)
      s == SkipWs(line, q + 2)
      a == IF q = 0 \/ FirstCI(line, AMark, s) = 0 THEN 0
           ELSE Max({i \in s..Len(line) : MatchAtCI(line, i, AMark)})
      e == Min({f \in s..a : SkipWs(line, f) = a})
      t == SkipWs(line, a + 2)
  IN  IF q = 0 \/ a = 0 THEN <<>>
      ELSE <<SubSeq(line, s, e - 1),
             SubSeq(line, t, LazyStop(line, t, {AnnotationMark, TagsMark}) - 1)>>

\* line.match(/Q:\s*(.*?)\s*A:\s*(.*?)(?:\s*annotation:|$|\s*tags:)/i): the two
\* groups, or the empty list (null) when the line does not match
qaMatch(line) ==
  LET q == FirstCI(line, QMark, 1)
      s == SkipWs(line, q + 2)
      a == IF q = 0 THEN 0 ELSE FirstCI(line, AMark, s)
      e == Min({f \in s..a : SkipWs(line, f) = a})
      t == SkipWs(line, a + 2)
  IN  IF q = 0 \/ a = 0 THEN <<>>
      ELSE <<SubSeq(line, s, e - 1),
             SubSeq(line, t, LazyStop(line, t, {AnnotationMark, TagsMark}) - 1)>>

\* line.match(/annotation:\s*(.*?)(?:\s*tags:|$)/i): the group, or undefined
annotationMatch(line) ==
  LET n == FirstCI(line, AnnotationMark, 1)
      s == SkipWs(line, n + 11)
  IN  IF n = 0 THEN Undefined
      ELSE SubSeq(line, s, LazyStop(line, s, {TagsMark}) - 1)

\* line.match(/tags:\s*(.*?)$/i): the group, or undefined
tagsMatch(line) ==
  LET g == FirstCI(line, TagsMark, 1)
  IN  IF g = 0 THEN Undefined ELSE Substring(line, SkipWs(line, g + 5))

\* fallbackLine with the ':::' guard off by one (splitLine.length >= 1)
fallbackLine_offByOne(line) ==
  LET qa == qaMatch(line)
      an == annotationMatch(line)
      tg == tagsMatch(line)
      splitLine == SplitLit(line, TripleColon)
      first == TrimOf(At(splitLine, 1))
      second == TrimOf(At(splitLine, 2))
  IN  IF qa # <<>>
      THEN [threw |-> FALSE,
            cards |-> <<[question |-> Trim(qa[1]),
                         answer |-> Trim(qa[2]),
                         annotation |-> IF an # Undefined THEN Trim(an) ELSE Undefined,
                         tags |-> IF tg # Undefined /\ tg # <<>>
                                  THEN FilterNonEmpty(MapTrim(SplitLit(tg, Hash)))
                                  ELSE UndefinedList]>>]
      ELSE IF Len(splitLine) >= 1
      THEN [threw |-> first = Undefined \/ second = Undefined,
            cards |-> <<[question |-> first, answer |-> second,
                         annotation |-> Undefined, tags |-> UndefinedList]>>]
      ELSE [threw |-> FALSE, cards |-> <<>>]

\* fallbackLine with the answer taken from the last piece of the ':::' split
fallbackLine_lastPiece(line) ==
  LET qa == qaMatch(line)
      an == annotationMatch(line)
      tg == tagsMatch(line)
      splitLine == SplitLit(line, TripleColon)
      first == TrimOf(At(splitLine, 1))
      second == TrimOf(At(splitLine, Len(splitLine)))
  IN  IF qa # <<>>
      THEN [threw |-> FALSE,
            cards |-> <<[question |-> Trim(qa[1]),
                         answer |-> Trim(qa[2]),
                         annotation |-> IF an # Undefined THEN Trim(an) ELSE Undefined,
                         tags |-> IF tg # Undefined /\ tg # <<>>
                                  THEN FilterNonEmpty(MapTrim(SplitLit(tg, Hash)))
                                  ELSE UndefinedList]>>]
      ELSE IF Len(splitLine) >= 2
      THEN [threw |-> first = Undefined \/ second = Undefined,
            cards |-> <<[question |-> first, answer |-> second,
                         annotation |-> Undefined, tags |-> UndefinedList]>>]
      ELSE [threw |-> FALSE, cards |-> <<>>]

\* one line of the fallback format: the cards it adds, and whether it raised
fallbackLine(line) ==
  LET qa == qaMatch(line)
      an == annotationMatch(line)
      tg == tagsMatch(line)
      splitLine == SplitLit(line, TripleColon)
      first == TrimOf(At(splitLine, 1))
      second == TrimOf(At(splitLine, 2))
  IN  IF qa # <<>>
      THEN [threw |-> FALSE,
            cards |-> <<[question |-> Trim(qa[1]),
                         answer |-> Trim(qa[2]),
                         annotation |-> IF an # Undefined THEN Trim(an) ELSE Undefined,
                         tags |-> IF tg # Undefined /\ tg # <<>>
                                  THEN FilterNonEmpty(MapTrim(SplitLit(tg, Hash)))
                                  ELSE UndefinedList]>>]
      ELSE IF Len(splitLine) >= 2
      THEN [threw |-> first = Undefined \/ second = Undefined,
            cards |-> <<[question |-> first, answer |-> second,
                         annotation |-> Undefined, tags |-> UndefinedList]>>]
      ELSE [threw |-> FALSE, cards |-> <<>>]

\* what a loop has pushed and whether it raised, after one more line did r
Then(r, rest) ==
  IF r.threw THEN [threw |-> TRUE, cards |-> <<>>]
  ELSE [threw |-> rest.threw, cards |-> r.cards \o rest.cards]

\* for (let i = 1; i < lines.length; i++): the data rows, each trimmed
RECURSIVE tableRows(_)
tableRows(lines) ==
  IF lines = <<>> THEN [threw |-> FALSE, cards |-> <<>>]
  ELSE Then(tableRow(Trim(Head(lines))), tableRows(Tail(lines)))

\* for (const line of lines): the lines of the fallback format
RECURSIVE fallbackLines(_)
fallbackLines(lines) ==
  IF lines = <<>> THEN [threw |-> FALSE, cards |-> <<>>]
  ELSE Then(fallbackLine(Head(lines)), fallbackLines(Tail(lines)))

\* parseAnkiCards with the fallback lines read in the multi-line format too
parseAnkiCards_everyStrategy(t) ==
  LET lines == nonEmptyLines(t)
  IN  IF isMultiLineFormat(t)
      THEN [threw |-> FALSE,
            cards |-> multiLineCards(cardBlocks(t)) \o fallbackLines(lines).cards]
      ELSE IF Len(lines) = 0 THEN [threw |-> FALSE, cards |-> <<>>]
      ELSE IF isTableFormat(Trim(lines[1])) THEN tableRows(Tail(lines))
      ELSE fallbackLines(lines)

\* parseAnkiCards(text): the cards returned, and whether the call raised
parseAnkiCards(t) ==
  IF isMultiLineFormat(t)
  THEN [threw |-> FALSE, cards |-> multiLineCards(cardBlocks(t))]
  ELSE LET lines == nonEmptyLines(t)
       IN  IF Len(lines) = 0 THEN [threw |-> FALSE, cards |-> <<>>]
           ELSE IF isTableFormat(Trim(lines[1])) THEN tableRows(Tail(lines))
           ELSE fallbackLines(lines)

\* the branch parseAnkiCards takes on a text
formatOf(t) ==
  IF isMultiLineFormat(t) THEN "MultiLine"
  ELSE IF nonEmptyLines(t) = <<>> THEN "Empty"
  ELSE IF isTableFormat(Trim(nonEmptyLines(t)[1])) THEN "Table"
  ELSE "Fallback"

-----------------------------------------------------------------------------
(* addNotesToAnki: the callback that turns one card into a note *)

\* the markup put between the answer and the annotation, and after it
AnnotationOpen ==
  <<"\n", "<", "h", "r", ">", "\n", "<", "s", "p", "a", "n", " ", "s", "t", "y", "l", "e", "=", "\"", "c", "o", "l", "o", "r", ":", " ", "r", "g", "b", "(", "1", "4", "3", ",", " ", "5", "3", ",", " ", "8", ")", ";", "\"", ">">>
AnnotationClose == <<"<", "/", "s", "p", "a", "n", ">">>

\* the field names the ladder looks for; ZhengMian and BeiMian stand for the
\* two-character Chinese labels of the front side and of the back side
Front == "Front"
Back == "Back"
ZhengMian == "ZhengMian"
BeiMian == "BeiMian"
TextField == "Text"
ExtraField == "Extra"

\* xs.includes(v) of an array
ArrayIncludes(xs, v) == \E i \in DOMAIN xs : xs[i] = v

\* answerWithAnnotation with the markup added for an empty annotation too
answerWithAnnotation_emptyToo(card) ==
  card.answer \o
    (IF card.annotation # Undefined
     THEN AnnotationOpen \o card.annotation \o AnnotationClose
     ELSE <<>>)

\* card.answer + (card.annotation ? `\n<hr>\n<span ...>${card.annotation}</span>` : "")
answerWithAnnotation(card) ==
  card.answer \o
    (IF card.annotation # Undefined /\ card.annotation # <<>>
     THEN AnnotationOpen \o card.annotation \o AnnotationClose
     ELSE <<>>)

\* the object { [first]: question, [second]: answer }: a later key overwrites
\* an equal earlier one
TwoFields(first, question, second, answer) ==
  [k \in {first, second} |-> IF k = second THEN answer ELSE question]

\* no fields: let fields = {}
NoFields == [k \in {} |-> <<>>]

\* the callback before it returns anything
NoNote == [error |-> "pending", key |-> "", fields |-> NoFields, tags |-> <<>>]

\* a callback that threw: the error, and the field it names
Thrown(error, key) == [error |-> error, key |-> key, fields |-> NoFields, tags |-> <<>>]

\* the ladder with the Text and Extra rung tried before the other rungs
fieldsOf_textFirst(card, modelFieldNames) ==
  IF ArrayIncludes(modelFieldNames, TextField) /\ ArrayIncludes(modelFieldNames, ExtraField)
  THEN TwoFields(TextField, card.question, ExtraField, answerWithAnnotation(card))
  ELSE IF ArrayIncludes(modelFieldNames, Front) /\ ArrayIncludes(modelFieldNames, Back)
  THEN TwoFields(Front, card.question, Back, answerWithAnnotation(card))
  ELSE IF ArrayIncludes(modelFieldNames, ZhengMian) /\ ArrayIncludes(modelFieldNames, BeiMian)
  THEN TwoFields(ZhengMian, card.question, BeiMian, answerWithAnnotation(card))
  ELSE IF Len(modelFieldNames) >= 2
  THEN TwoFields(modelFieldNames[1], card.question,
                 modelFieldNames[2], answerWithAnnotation(card))
  ELSE NoFields

\* the ladder over the field names of the note type: the fields, or NoFields
\* when the mapping cannot be determined
fieldsOf(card, modelFieldNames) ==
  IF ArrayIncludes(modelFieldNames, Front) /\ ArrayIncludes(modelFieldNames, Back)
  THEN TwoFields(Front, card.question, Back, answerWithAnnotation(card))
  ELSE IF ArrayIncludes(modelFieldNames, ZhengMian) /\ ArrayIncludes(modelFieldNames, BeiMian)
  THEN TwoFields(ZhengMian, card.question, BeiMian, answerWithAnnotation(card))
  ELSE IF ArrayIncludes(modelFieldNames, TextField) /\ ArrayIncludes(modelFieldNames, ExtraField)
  THEN TwoFields(TextField, card.question, ExtraField, answerWithAnnotation(card))
  ELSE IF Len(modelFieldNames) >= 2
  THEN TwoFields(modelFieldNames[1], card.question,
                 modelFieldNames[2], answerWithAnnotation(card))
  ELSE NoFields

\* the validation of the fields without value.trim(): only "" is refused
emptyFieldOf_untrimmed(fields, order) ==
  LET bad == {i \in DOMAIN order :
                order[i] \in DOMAIN fields /\ fields[order[i]] = <<>>}
  IN  IF bad = {} THEN "" ELSE order[Min(bad)]

\* the first key of the fields, in the order they were written, whose value is
\* empty or blank; "" when there is none
emptyFieldOf(fields, order) ==
  LET bad == {i \in DOMAIN order :
                order[i] \in DOMAIN fields /\ Trim(fields[order[i]]) = <<>>}
  IN  IF bad = {} THEN "" ELSE order[Min(bad)]

\* the order in which the ladder writes the keys of the fields
keyOrder(modelFieldNames) ==
  IF ArrayIncludes(modelFieldNames, Front) /\ ArrayIncludes(modelFieldNames, Back)
  THEN <<Front, Back>>
  ELSE IF ArrayIncludes(modelFieldNames, ZhengMian) /\ ArrayIncludes(modelFieldNames, BeiMian)
  THEN <<ZhengMian, BeiMian>>
  ELSE IF ArrayIncludes(modelFieldNames, TextField) /\ ArrayIncludes(modelFieldNames, ExtraField)
  THEN <<TextField, ExtraField>>
  ELSE SubSeq(modelFieldNames, 1, 2)

\* !card.question || !card.answer: the check the callback starts with
cardIncomplete(card) == card.question = <<>> \/ card.answer = <<>>

\* the callback from the reply of the modelFieldNames request on: the note,
\* or the error thrown
mappedNote(card, modelFieldNames) ==
  LET fields == fieldsOf(card, modelFieldNames)
      empty == emptyFieldOf(fields, keyOrder(modelFieldNames))
  IN  IF fields = NoFields THEN Thrown("noMapping", "")
      ELSE IF empty # "" THEN Thrown("emptyField", empty)
      ELSE [error |-> "none", key |-> "", fields |-> fields,
            tags |-> IF card.tags = UndefinedList THEN <<>> ELSE card.tags]

\* cards.map(async (card, index) => ...) on one card, given the field names
\* the modelFieldNames request returned: the note, or the error thrown
noteOf(card, modelFieldNames) ==
  IF cardIncomplete(card) THEN Thrown("incomplete", "")
  ELSE mappedNote(card, modelFieldNames)

\* plugin.settings as far as the dialog reads and writes it; saved counts the
\* calls of saveSettings that wrote it to disk
DEFAULT_SETTINGS == [defaultDeck |-> "Default", defaultNoteType |-> "Basic", saved |-> 0]

\* no dialog yet
NoModal ==
  /\ selectedCards = <<>>
  /\ selectAllChecked = TRUE
  /\ deckName = ""
  /\ noteType = ""
  /\ settings = DEFAULT_SETTINGS
  /\ closed = FALSE
  /\ clicks = <<>>
  /\ requests = <<>>
  /\ inputs = <<>>
  /\ edits = 0

-----------------------------------------------------------------------------
(* The card callback of addNotesToAnki on one card and one note type *)

MapCard ==
  /\ pc = "mapping"
  /\ pc' = "mapped"
  /\ note' = noteOf(input.card, input.modelFieldNames)
  /\ UNCHANGED <<input, text, format, cards, threw, modalVars>>

-----------------------------------------------------------------------------
(* The call of parseAnkiCards on the reply text (processContent) *)

\* const cards = this.parseAnkiCards(result)
ParseAnkiCards ==
  /\ pc = "start"
  /\ pc' = "done"
  /\ format' = formatOf(text)
  /\ LET result == parseAnkiCards(text)
     IN  cards' = result.cards /\ threw' = result.threw
  /\ UNCHANGED <<input, text, note, modalVars>>

-----------------------------------------------------------------------------
(* SelectableCardsModal: the dialog over the parsed cards, and the calls of   *)
(* addNotesToAnki its add-to-Anki button starts                                *)

MaxClicks == 1
MaxEdits == 1

\* what the user types into the inputs of a card
EditValues == {<<>>, <<" ">>, <<"e">>}
AnnotationValues == {<<>>}
TagsValues == {<<"t", " ", " ", "u">>}

\* the options of the two selects besides the defaults
DeckOptions == {"Deck2"}
NoteTypeOptions == {"Cloze"}

\* what Anki Connect answers to modelFieldNames
FieldNamesReplies == {<<Front, Back>>, <<"f1">>}

\* new SelectableCardsModal(app, cards, result, this, editor).open()
OpenModal ==
  /\ pc = "done"
  /\ ~threw
  /\ pc' = "open"
  /\ selectedCards' = [i \in DOMAIN cards |-> TRUE]
  /\ deckName' = settings.defaultDeck
  /\ noteType' = settings.defaultNoteType
  /\ inputs' = [i \in DOMAIN cards |->
                  {"question", "answer"}
                    \cup (IF cards[i].annotation # Undefined /\ cards[i].annotation # <<>>
                          THEN {"annotation"} ELSE {})
                    \cup (IF cards[i].tags # UndefinedList /\ cards[i].tags # <<>>
                          THEN {"tags"} ELSE {})]
  /\ UNCHANGED <<input, text, format, cards, threw, note, selectAllChecked,
                 settings, closed, clicks, requests, edits>>

\* the dialog shows its controls: it is open, not closed, and has cards
Shown == pc = "open" /\ ~closed /\ Len(cards) > 0

\* the change handler of the select-all checkbox
ToggleSelectAll ==
  /\ Shown
  /\ selectAllChecked' = ~selectAllChecked
  /\ selectedCards' = [i \in DOMAIN selectedCards |-> selectAllChecked']
  /\ UNCHANGED <<input, text, pc, format, cards, threw, note, deckName, noteType,
                 settings, closed, clicks, requests, inputs, edits>>

\* the change handler of the checkbox of card index
ToggleCard(index) ==
  /\ Shown
  /\ selectedCards' = [selectedCards EXCEPT ![index] = ~@]
  /\ UNCHANGED <<input, text, pc, format, cards, threw, note, selectAllChecked,
                 deckName, noteType, settings, closed, clicks, requests, inputs, edits>>

\* the change handlers of deckSelect and of noteTypeSelect
SelectDeck(deck) ==
  /\ Shown
  /\ deckName' = deck
  /\ UNCHANGED <<input, text, pc, format, cards, threw, note, selectedCards,
                 selectAllChecked, noteType, settings, closed, clicks, requests,
                 inputs, edits>>

SelectNoteType(type) ==
  /\ Shown
  /\ noteType' = type
  /\ UNCHANGED <<input, text, pc, format, cards, threw, note, selectedCards,
                 selectAllChecked, deckName, settings, closed, clicks, requests,
                 inputs, edits>>

\* a change of one input of card index leaves everything but the cards alone
Edited(index, field) ==
  /\ Shown
  /\ field \in inputs[index]
  /\ edits < MaxEdits
  /\ edits' = edits + 1
  /\ UNCHANGED <<input, text, pc, format, threw, note, selectedCards,
                 selectAllChecked, deckName, noteType, settings, closed, clicks,
                 requests, inputs>>

\* the change handlers of the four inputs of card index
EditQuestion(index, value) ==
  /\ Edited(index, "question")
  /\ cards' = [cards EXCEPT ![index].question = value]

EditAnswer(index, value) ==
  /\ Edited(index, "answer")
  /\ cards' = [cards EXCEPT ![index].answer = value]

EditAnnotation(index, value) ==
  /\ Edited(index, "annotation")
  /\ cards' = [cards EXCEPT ![index].annotation = value]

EditTags(index, value) ==
  /\ Edited(index, "tags")
  /\ cards' = [cards EXCEPT ![index].tags =
                 FilterNonEmpty(MapTrim(SplitRuns(value, WhiteSpace, 1)))]

\* the click handler of the insert-to-document button: it closes the dialog
InsertToDocument ==
  /\ Shown
  /\ closed' = TRUE
  /\ UNCHANGED <<input, text, pc, format, cards, threw, note, selectedCards,
                 selectAllChecked, deckName, noteType, settings, clicks, requests,
                 inputs, edits>>

\* this.cards.filter((_, index) => this.selectedCards[index]), as the indexes
\* of the cards it keeps: the list holds the card objects themselves
selectedCardsList ==
  LET kept == {i \in DOMAIN cards : selectedCards[i]}
  IN  [k \in 1..Cardinality(kept) |->
         CHOOSE i \in kept : Cardinality({j \in kept : j < i}) = k - 1]

\* one run of the click handler: where it stands, the error it caught, the
\* list and the arguments it gave addNotesToAnki, the cards whose
\* modelFieldNames request has no reply yet, and what each callback came to
Handler(at, error, list, deck, type, notes) ==
  [pc |-> at, error |-> error, list |-> list, deckName |-> deck, noteType |-> type,
   pending |-> {p \in DOMAIN notes : notes[p] = NoNote}, notes |-> notes]

\* addNotesToAnki without the check of the card at the start of the callback
addNotesToAnki_unchecked(list, deck, type) ==
  IF deck = "" \/ type = ""
  THEN Handler("failed", "noDeck", list, deck, type, [p \in DOMAIN list |-> Thrown("noDeck", "")])
  ELSE Handler("mapping", "", list, deck, type, [p \in DOMAIN list |-> NoNote])

\* addNotesToAnki up to its first await: the check of its arguments, then every
\* callback up to its modelFieldNames request; a callback that throws rejects
\* the Promise.all, and the click handler catches that
addNotesToAnki(list, deck, type) ==
  LET notes == [p \in DOMAIN list |->
                  IF cardIncomplete(cards[list[p]])
                  THEN Thrown("incomplete", "") ELSE NoNote]
  IN  IF deck = "" \/ type = ""
      THEN Handler("failed", "noDeck", list, deck, type, [p \in DOMAIN list |-> Thrown("noDeck", "")])
      ELSE IF \E p \in DOMAIN notes : notes[p] # NoNote
      THEN Handler("failed", "incomplete", list, deck, type, notes)
      ELSE Handler("mapping", "", list, deck, type, notes)

\* the click handler of the add-to-Anki button, up to its first await
Click ==
  /\ Shown
  /\ Len(clicks) < MaxClicks
  /\ clicks' = Append(clicks,
       IF selectedCardsList = <<>>
       THEN Handler("noneSelected", "", <<>>, deckName, noteType, <<>>)
       ELSE addNotesToAnki(selectedCardsList, deckName, noteType))
  /\ UNCHANGED <<input, text, pc, format, cards, threw, note, selectedCards,
                 selectAllChecked, deckName, noteType, settings, closed, requests,
                 inputs, edits>>

\* the note object of a callback that returned
noteObject(built, deck, type) ==
  [deckName |-> deck, modelName |-> type, fields |-> built.fields, tags |-> built.tags]

\* a callback of click h comes to `built`: the first callback that throws
\* rejects the Promise.all and the click handler catches it; the last one
\* that returns resolves it and addNotesToAnki sends the addNotes request
Settle(h, p, built) ==
  LET run == clicks[h]
      notes == [run.notes EXCEPT ![p] = built]
      pending == run.pending \ {p}
      at == IF run.pc # "mapping" THEN run.pc
            ELSE IF built.error # "none" THEN "failed"
            ELSE IF pending = {} THEN "adding"
            ELSE "mapping"
  IN  /\ clicks' = [clicks EXCEPT ![h] =
                      [run EXCEPT !.notes = notes, !.pending = pending, !.pc = at,
                                  !.error = IF run.pc = "mapping" /\ at = "failed"
                                            THEN built.error ELSE @]]
      /\ requests' =
           IF run.pc = "mapping" /\ at = "adding"
           THEN Append(requests,
                  [click |-> h,
                   notes |-> [q \in DOMAIN notes |->
                                noteObject(notes[q], run.deckName, run.noteType)]])
           ELSE requests

\* Anki Connect answers the modelFieldNames request of the callback of the
\* card at place p of click h
FieldNamesReply(h, p, modelFieldNames) ==
  /\ pc = "open"
  /\ h \in DOMAIN clicks
  /\ p \in clicks[h].pending
  /\ Settle(h, p, mappedNote(cards[clicks[h].list[p]], modelFieldNames))
  /\ UNCHANGED <<input, text, pc, format, cards, threw, note, selectedCards,
                 selectAllChecked, deckName, noteType, settings, closed, inputs, edits>>

\* the modelFieldNames request fails: invokeAnkiConnect throws
FieldNamesFail(h, p) ==
  /\ pc = "open"
  /\ h \in DOMAIN clicks
  /\ p \in clicks[h].pending
  /\ Settle(h, p, Thrown("requestFailed", ""))
  /\ UNCHANGED <<input, text, pc, format, cards, threw, note, selectedCards,
                 selectAllChecked, deckName, noteType, settings, closed, inputs, edits>>

\* Anki Connect answers the addNotes request of click h with a list of ids:
\* the click handler stores the deck and the note type and calls saveSettings
AddNotesReply(h) ==
  /\ pc = "open"
  /\ h \in DOMAIN clicks
  /\ clicks[h].pc = "adding"
  /\ clicks' = [clicks EXCEPT ![h].pc = "saving"]
  /\ settings' = [settings EXCEPT !.defaultDeck = deckName, !.defaultNoteType = noteType]
  /\ UNCHANGED <<input, text, pc, format, cards, threw, note, selectedCards,
                 selectAllChecked, deckName, noteType, closed, requests, inputs, edits>>

\* the addNotes request fails or answers something that is no list:
\* addNotesToAnki throws and the click handler catches it
AddNotesFail(h) ==
  /\ pc = "open"
  /\ h \in DOMAIN clicks
  /\ clicks[h].pc = "adding"
  /\ clicks' = [clicks EXCEPT ![h].pc = "failed", ![h].error = "addNotes"]
  /\ UNCHANGED <<input, text, pc, format, cards, threw, note, selectedCards,
                 selectAllChecked, deckName, noteType, settings, closed, requests,
                 inputs, edits>>

\* saveSettings has written the settings: the click handler closes the dialog
SettingsSaved(h) ==
  /\ pc = "open"
  /\ h \in DOMAIN clicks
  /\ clicks[h].pc = "saving"
  /\ clicks' = [clicks EXCEPT ![h].pc = "done"]
  /\ settings' = [settings EXCEPT !.saved = @ + 1]
  /\ closed' = TRUE
  /\ UNCHANGED <<input, text, pc, format, cards, threw, note, selectedCards,
                 selectAllChecked, deckName, noteType, requests, inputs, edits>>

\* the state before the call, on a given text
Before(in, t) ==
  /\ input = in
  /\ text = t
  /\ pc = "start"
  /\ format = "none"
  /\ cards = <<>>
  /\ threw = FALSE
  /\ note = NoNote
  /\ NoModal

RECURSIVE Join(_, _)
\* xs.join(d)
Join(xs, d) ==
  IF xs = <<>> THEN <<>>
  ELSE IF Len(xs) = 1 THEN xs[1]
  ELSE xs[1] \o d \o Join(Tail(xs), d)

\* the sequences of lo to hi elements of S
Seqs(S, lo, hi) == UNION {[1..k -> S] : k \in lo..hi}

-----------------------------------------------------------------------------
(* Specification SpecParser: replies of up to MaxLines lines, of every format *)

MaxLines == 3

HeaderLine == <<"Q", "\t", "A", "\t", "a", "n", "n", "o", "t", "a", "t", "i", "o", "n", "\t", "t", "a", "g", "s">>

LinePool ==
  { <<>>,
    <<"Q", ":", " ", "x">>,
    <<"A", ":", " ", "y">>,
    <<"q", ":", " ", "x">>,
    <<" ", "A", ":", " ", "y">>,
    <<"a", "n", "n", "o", "t", "a", "t", "i", "o", "n", ":", " ", "n">>,
    <<"t", "a", "g", "s", ":", " ", "a", ",", " ", "b">>,
    HeaderLine,
    <<"x", "\t", "\t", "y">>,
    <<"x", ":", ":", ":", "y">>,
    <<":", ":", ":", "y">>,
    <<"Q", ":", " ", "x", " ", "A", ":", " ", "y">>,
    <<"z", " ", "Q", ":", " ", "x">> }

InitParser ==
  \E lines \in Seqs(LinePool, 1, MaxLines) : Before(lines, Join(lines, Newline))

SpecParser == InitParser /\ [][ParseAnkiCards]_vars

-----------------------------------------------------------------------------
(* Specification SpecBlocks: replies written as Q:/A: blocks between blank lines *)

MaxBlocks == 2

\* the texts written after Q: and after A:
Content == { <<"x">>, <<"y", " ", "z">>, <<" ", "x", " ">>, <<" ">> }

\* what stands between two blocks: one or more blank (whitespace-only) lines
BlankLines == { <<"\n", "\n">>, <<"\n", " ", "\n", "\n">> }

\* the block 'Q: x' newline 'A: y'
BlockText(b) == QMark \o <<" ">> \o b.x \o Newline \o AMark \o <<" ">> \o b.y

RECURSIVE BlocksText(_)
BlocksText(bs) ==
  IF bs = <<>> THEN <<>> ELSE Head(bs).sep \o BlockText(Head(bs)) \o BlocksText(Tail(bs))

InitBlocks ==
  \E first \in [sep : {<<>>}, x : Content, y : Content] :
    \E rest \in Seqs([sep : BlankLines, x : Content, y : Content], 0, MaxBlocks - 1) :
      Before(<<first>> \o rest, BlocksText(<<first>> \o rest))

SpecBlocks == InitBlocks /\ [][ParseAnkiCards]_vars

-----------------------------------------------------------------------------
(* Specification SpecTags: one card whose tag text is any text of up to       *)
(* MaxTagLen characters, written as a tags: line of a block or as the fourth  *)
(* column of a table row                                                      *)

MaxTagLen == 5

TagChars == {"#", "a", "b", " ", ","}

\* the block 'Q: x / A: y / tags: <tag text>'
TagsBlock(tagsText) ==
  <<"Q", ":", " ", "x", "\n", "A", ":", " ", "y", "\n", "t", "a", "g", "s", ":", " ">> \o tagsText

\* the header and the row 'x <TAB> y <TAB> n <TAB> <tag text>'
TagsTable(tagsText) ==
  HeaderLine \o Newline \o <<"x", "\t", "y", "\t", "n", "\t">> \o tagsText

InitTags ==
  \E tagsText \in Seqs(TagChars, 0, MaxTagLen) :
    \/ Before([in |-> "block", tagsText |-> tagsText], TagsBlock(tagsText))
    \/ Before([in |-> "row", tagsText |-> tagsText], TagsTable(tagsText))

SpecTags == InitTags /\ [][ParseAnkiCards]_vars

-----------------------------------------------------------------------------
(* Specification SpecTable: a header line followed by up to MaxRows lines *)

MaxRows == 3

\* first lines the header pattern accepts: tabs, mixed whitespace and case, and
\* the header after a blank line
HeaderPool ==
  { HeaderLine,
    <<"q", " ", "a", " ", " ", "A", "n", "n", "o", "t", "a", "t", "i", "o", "n", "\t", "T", "A", "G", "S">>,
    Newline \o HeaderLine }

RowPool ==
  { <<"x", "\t", "y">>,
    <<"x", "\t", "y", "\t", "n", "\t", "#", "a", " ", "b">>,
    <<"x", " ", " ", "y", " ", " ", "n", " ", " ", "a", ",", "b">>,
    <<"x", " ", "y">>,
    <<"x", "\t">>,
    <<" ", "x", " ", "\t", " ", "y", "\t", " ", "\t", " ">>,
    <<"Q", ":", " ", "x">>,
    <<"A", ":", " ", "y">> }

InitTable ==
  \E header \in HeaderPool : \E rows \in Seqs(RowPool, 0, MaxRows) :
    Before([header |-> header, rows |-> rows], Join(<<header>> \o rows, Newline))

SpecTable == InitTable /\ [][ParseAnkiCards]_vars

-----------------------------------------------------------------------------
(* Specification SpecFallback: replies of up to MaxFallbackLines lines with   *)
(* neither blocks nor a header                                                *)

MaxFallbackLines == 3

FallbackPool ==
  { <<"x", ":", ":", ":", "y">>,
    <<" ", "x", " ", ":", ":", ":", " ", "y", " ">>,
    <<"x", ":", ":", ":", "y", ":", ":", ":", "z">>,
    <<":", ":", ":">>,
    <<"x">>,
    <<"x", ":", ":", "y">>,
    <<"x", ":", ":", ":", ":", "y">>,
    <<" ">>,
    <<"Q", ":", " ", "x", " ", "A", ":", " ", "y">>,
    <<"Q", ":", " ", "x", ":", ":", ":", "y">>,
    <<"q", ":", " ", "x", " ", ":", ":", ":", " ", "a", ":", " ", "y">> }

InitFallback ==
  \E lines \in Seqs(FallbackPool, 1, MaxFallbackLines) : Before(lines, Join(lines, Newline))

SpecFallback == InitFallback /\ [][ParseAnkiCards]_vars

-----------------------------------------------------------------------------
(* Specification SpecMap: one card mapped onto note types of up to MaxFields  *)
(* field names                                                                *)

MaxFields == 4

FieldNames == {Front, Back, ZhengMian, BeiMian, TextField, ExtraField, "f1"}

\* the cards handed to the callback: parsed ones, and ones the user has edited
MapCards ==
  [question : {<<>>, <<" ">>, <<"q">>},
   answer : {<<>>, <<" ">>, <<"a">>},
   annotation : {Undefined, <<"n">>},
   tags : {UndefinedList}]

InitMap ==
  \E card \in MapCards : \E names \in Seqs(FieldNames, 0, MaxFields) :
    /\ input = [card |-> card, modelFieldNames |-> names]
    /\ text = <<>>
    /\ pc = "mapping"
    /\ format = "none"
    /\ cards = <<card>>
    /\ threw = FALSE
    /\ note = NoNote
    /\ NoModal

SpecMap == InitMap /\ [][MapCard]_vars

-----------------------------------------------------------------------------
(* Specification SpecModal: a reply is parsed, the dialog opens on its cards, *)
(* the user changes up to MaxEdits inputs, toggles checkboxes, and clicks the *)
(* add-to-Anki button up to MaxClicks times while Anki Connect answers        *)

BlocksReply ==
    <<"Q", ":", " ", "q", "\n", "A", ":", " ", "a", "\n", "\n",
      "Q", ":", " ", "r", "\n", "A", ":", " ", "b">>
LinesReply ==
    <<"q", ":", ":", ":", "a", "\n", ":", ":", ":", "b">>
AnnotatedReply ==
    <<"Q", ":", " ", "q", "\n", "A", ":", " ", "a", "\n",
      "a", "n", "n", "o", "t", "a", "t", "i", "o", "n", ":", " ", "n", "\n",
      "t", "a", "g", "s", ":", " ", "t">>
NoCardReply ==
    <<"x">>

\* the replies the dialog opens on, and the default deck of the settings
ModalInputs ==
  [text : {BlocksReply, LinesReply, AnnotatedReply, NoCardReply}, defaultDeck : {"Default"}]
    \cup {[text |-> LinesReply, defaultDeck |-> ""]}

InitModal ==
  \E in \in ModalInputs :
    /\ input = in
    /\ text = in.text
    /\ pc = "start"
    /\ format = "none"
    /\ cards = <<>>
    /\ threw = FALSE
    /\ note = NoNote
    /\ selectedCards = <<>>
    /\ selectAllChecked = TRUE
    /\ deckName = ""
    /\ noteType = ""
    /\ settings = [DEFAULT_SETTINGS EXCEPT !.defaultDeck = in.defaultDeck]
    /\ closed = FALSE
    /\ clicks = <<>>
    /\ requests = <<>>
    /\ inputs = <<>>
    /\ edits = 0

NextModal ==
  \/ ParseAnkiCards
  \/ OpenModal
  \/ ToggleSelectAll
  \/ \E index \in DOMAIN cards : ToggleCard(index)
  \/ \E deck \in DeckOptions : SelectDeck(deck)
  \/ \E type \in NoteTypeOptions : SelectNoteType(type)
  \/ \E index \in DOMAIN cards : \E value \in EditValues : EditQuestion(index, value)
  \/ \E index \in DOMAIN cards : \E value \in EditValues : EditAnswer(index, value)
  \/ \E index \in DOMAIN cards : \E value \in AnnotationValues : EditAnnotation(index, value)
  \/ \E index \in DOMAIN cards : \E value \in TagsValues : EditTags(index, value)
  \/ InsertToDocument
  \/ Click
  \/ \E h \in DOMAIN clicks : \E p \in clicks[h].pending :
       \E names \in FieldNamesReplies : FieldNamesReply(h, p, names)
  \/ \E h \in DOMAIN clicks : \E p \in clicks[h].pending : FieldNamesFail(h, p)
  \/ \E h \in DOMAIN clicks : AddNotesReply(h)
  \/ \E h \in DOMAIN clicks : AddNotesFail(h)
  \/ \E h \in DOMAIN clicks : SettingsSaved(h)

SpecModal == InitModal /\ [][NextModal]_vars

-----------------------------------------------------------------------------
(* Specification SpecMarkers: one block of up to MaxMarkerLines lines whose   *)
(* markers are written in the letter case of the code or in the other one     *)

MaxMarkerLines == 3

\* each marker as the code writes it and in another letter case
MarkerCases ==
  { [kind |-> "Q", asCode |-> QMark, other |-> <<"q", ":">>],
    [kind |-> "A", asCode |-> AMark, other |-> <<"a", ":">>],
    [kind |-> "annotation", asCode |-> AnnotationMark,
     other |-> <<"A", "n", "n", "o", "t", "a", "t", "i", "o", "n", ":">>],
    [kind |-> "tags", asCode |-> TagsMark, other |-> <<"T", "A", "G", "S", ":">>] }

\* a line of the block: its marker, the case it is written in, and its text
MarkerLines == [marker : MarkerCases, written : {"asCode", "other"}, body : {<<" ", "x">>}]

\* the line as it stands in the reply, and with its marker in the code's case
Written(l) == (IF l.written = "asCode" THEN l.marker.asCode ELSE l.marker.other) \o l.body
AsCode(l) == l.marker.asCode \o l.body

RECURSIVE WrittenLines(_)
WrittenLines(ls) == IF ls = <<>> THEN <<>> ELSE <<Written(Head(ls))>> \o WrittenLines(Tail(ls))

RECURSIVE AsCodeLines(_)
AsCodeLines(ls) == IF ls = <<>> THEN <<>> ELSE <<AsCode(Head(ls))>> \o AsCodeLines(Tail(ls))

InitMarkers ==
  \E ls \in Seqs(MarkerLines, 1, MaxMarkerLines) : Before(ls, Join(WrittenLines(ls), Newline))

SpecMarkers == InitMarkers /\ [][ParseAnkiCards]_vars

-----------------------------------------------------------------------------
(* Specification SpecSingleLine: a reply of one line written from up to       *)
(* MaxTokens markers and pieces of text                                       *)

MaxTokens == 4

LineTokens ==
  { QMark, <<"q", ":">>, <<"a", ":">>, AnnotationMark, <<"T", "a", "g", "s", ":">>,
    <<" ">>, <<"x">>, TripleColon }

InitSingleLine ==
  \E tokens \in Seqs(LineTokens, 1, MaxTokens) : Before(tokens, Join(tokens, <<>>))

SpecSingleLine == InitSingleLine /\ [][ParseAnkiCards]_vars

-----------------------------------------------------------------------------
(* Specification SpecNote: a card with or without annotation and tags mapped  *)
(* onto note types of up to MaxNoteFields field names                         *)

MaxNoteFields == 3

\* the cards handed to the callback: annotation and tags absent, empty or set
NoteCards ==
  [question : {<<"q">>},
   answer : {<<"a">>, <<" ">>},
   annotation : {Undefined, <<>>, <<" ">>, <<"n">>},
   tags : {UndefinedList, <<>>, <<<<"t">>, <<"u">>>>}]

InitNote ==
  \E card \in NoteCards : \E names \in Seqs(FieldNames, 0, MaxNoteFields) :
    /\ input = [card |-> card, modelFieldNames |-> names]
    /\ text = <<>>
    /\ pc = "mapping"
    /\ format = "none"
    /\ cards = <<card>>
    /\ threw = FALSE
    /\ note = NoNote
    /\ NoModal

SpecNote == InitNote /\ [][MapCard]_vars

-----------------------------------------------------------------------------
(* Specification SpecScan: a reply of up to MaxScanLines Q: and A: lines,     *)
(* each separated from the line before it by a newline or by a blank line     *)

MaxScanLines == 4

ScanLines ==
  { <<"Q", ":", " ", "x">>, <<"Q", ":", " ", "w">>,
    <<"A", ":", " ", "y">>, <<"A", ":", " ", "z">> }

\* what separates a line from the one before it
LineBreaks == {Newline, <<"\n", "\n">>}

RECURSIVE ScanText(_)
ScanText(ls) ==
  IF ls = <<>> THEN <<>> ELSE Head(ls).break \o Head(ls).line \o ScanText(Tail(ls))

InitScan ==
  \E first \in [break : {<<>>}, line : ScanLines] :
    \E rest \in Seqs([break : LineBreaks, line : ScanLines], 0, MaxScanLines - 1) :
      Before(<<first>> \o rest, ScanText(<<first>> \o rest))

SpecScan == InitScan /\ [][ParseAnkiCards]_vars

-----------------------------------------------------------------------------
(* Claims checked under SpecParser *)

\* C1 (as claimed): every Card parseAnkiCards returns has a non-empty question
\* and a non-empty answer, whichever format produced it.
C1_EveryCardComplete ==
  pc = "done" =>
    \A k \in DOMAIN cards : cards[k].question # <<>> /\ cards[k].answer # <<>>

\* a line of the text is the table header
HasHeaderLine(t) ==
  LET lines == SplitLit(t, Newline)
  IN  \E k \in DOMAIN lines : isTableFormat(Trim(lines[k]))

\* the text holds no Q: or A: marker (in any case), no header line and no ':::'
NoMarker(t) ==
  /\ ~IncludesCI(t, QMark)
  /\ ~IncludesCI(t, AMark)
  /\ ~HasHeaderLine(t)
  /\ ~Includes(t, TripleColon)

\* C2: parseAnkiCards never raises, and a text with no Q:/A: marker, no table
\* header line and no ':::' (the empty and blank texts included) gives no Card.
C2_NeverRaisesAndEmptyWithoutMarker ==
  pc = "done" => ~threw /\ (NoMarker(text) => cards = <<>>)

\* C2's case: a text with visible content and no marker was parsed, to nothing
C2_Witness ==
  /\ pc = "done"
  /\ NoMarker(text)
  /\ Trim(text) # <<>>
  /\ format = "Fallback"
  /\ cards = <<>>
  /\ ~threw

\* s starts with p under the /i flag
StartsWithCI(s, p) == MatchAtCI(s, 1, p)

\* C10's detection as claimed: a line that starts with Q: is followed, directly
\* or after annotation:/tags: lines only, by a line that starts with A:
ClaimedMultiLine(t) ==
  LET lines == SplitLit(t, Newline)
  IN  \E k \in DOMAIN lines : \E m \in (k + 1)..Len(lines) :
        /\ StartsWithCI(lines[k], QMark)
        /\ StartsWithCI(lines[m], AMark)
        /\ \A j \in (k + 1)..(m - 1) :
             StartsWithCI(lines[j], AnnotationMark) \/ StartsWithCI(lines[j], TagsMark)

\* C10 (as claimed): the multi-line branch runs if and only if a line starting
\* with Q: is followed, directly or after annotation:/tags: lines only, by a
\* line starting with A:.
C10_DetectionAsClaimed ==
  pc = "done" => (format = "MultiLine" <=> ClaimedMultiLine(text))

\* the detection the code performs, line by line: some line holds Q: anywhere
\* and the very next line starts with A:
NextLineDetection(t) ==
  LET lines == SplitLit(t, Newline)
  IN  \E k \in 1..(Len(lines) - 1) :
        IncludesCI(lines[k], QMark) /\ StartsWithCI(lines[k + 1], AMark)

\* C10 (amended): the multi-line branch runs if and only if some line holds Q:
\* (any case, anywhere in the line) and the line right after it starts with A:
\* (any case).
C10_DetectionNextLine ==
  pc = "done" => (format = "MultiLine" <=> NextLineDetection(text))

\* C10's case: the multi-line branch ran on a text none of whose lines starts
\* with Q:, the marker standing in the middle of a line
C10_Witness ==
  /\ pc = "done"
  /\ format = "MultiLine"
  /\ \A k \in DOMAIN input : ~StartsWithCI(input[k], QMark)

\* the lines of a reply in groups: a group ends at an empty line
RECURSIVE Groups(_, _)
Groups(lines, group) ==
  IF lines = <<>> THEN (IF group = <<>> THEN <<>> ELSE <<group>>)
  ELSE IF Head(lines) = <<>>
  THEN (IF group = <<>> THEN <<>> ELSE <<group>>) \o Groups(Tail(lines), <<>>)
  ELSE Groups(Tail(lines), Append(group, Head(lines)))

\* the cards of the groups read as blocks: one per group that has a question
\* and an answer
RECURSIVE FromBlocks(_)
FromBlocks(groups) ==
  IF groups = <<>> THEN <<>>
  ELSE LET card == blockCard(Join(Head(groups), Newline))
       IN  (IF card.question # <<>> /\ card.answer # <<>> THEN <<card>> ELSE <<>>)
             \o FromBlocks(Tail(groups))

\* C12: one strategy gives all the cards of a reply: the blocks when the
\* multi-line format is detected, else the rows after the header when the
\* first non-empty line is the table header, else the fallback lines
C12_OneStrategy ==
  pc = "done" =>
    LET NotEmpty(line) == line # <<>>
        lines == SelectSeq(input, NotEmpty)
    IN  IF isMultiLineFormat(text)
        THEN format = "MultiLine" /\ cards = FromBlocks(Groups(input, <<>>))
        ELSE IF lines # <<>> /\ isTableFormat(Trim(lines[1]))
        THEN format = "Table" /\ cards = tableRows(Tail(lines)).cards
        ELSE format \in {"Fallback", "Empty"} /\ cards = fallbackLines(lines).cards

\* C12 witness: a reply in multi-line format that also holds a ':::' line
\* gives the card of its block and nothing else
C12_Witness ==
  /\ pc = "done"
  /\ format = "MultiLine"
  /\ \E i \in DOMAIN input : input[i] = <<"x", ":", ":", ":", "y">>
  /\ Len(cards) = 1
  /\ cards[1].question = <<"x">>
  /\ cards[1].answer = <<"y">>

-----------------------------------------------------------------------------
(* Claims checked under SpecMap *)

\* the rung of the priority order a list of field names falls on: 1 Front and
\* Back, 2 the localized labels, 3 Text and Extra, 4 two names or more, 5 none
Rule(names) ==
  LET Has(n) == \E i \in DOMAIN names : names[i] = n
  IN  IF Has(Front) /\ Has(Back) THEN 1
      ELSE IF Has(ZhengMian) /\ Has(BeiMian) THEN 2
      ELSE IF Has(TextField) /\ Has(ExtraField) THEN 3
      ELSE IF Len(names) >= 2 THEN 4
      ELSE 5

\* the name that gets the question and the name that gets the answer on a rung
QuestionKey(names) ==
  CASE Rule(names) = 1 -> Front
    [] Rule(names) = 2 -> ZhengMian
    [] Rule(names) = 3 -> TextField
    [] OTHER -> names[1]

AnswerKey(names) ==
  CASE Rule(names) = 1 -> Back
    [] Rule(names) = 2 -> BeiMian
    [] Rule(names) = 3 -> ExtraField
    [] OTHER -> names[2]

\* the answer side as the claims word it
Decorated(card) ==
  IF card.annotation = Undefined \/ card.annotation = <<>>
  THEN card.answer
  ELSE card.answer \o AnnotationOpen \o card.annotation \o AnnotationClose

Blank(value) == \A i \in DOMAIN value : value[i] \in WhiteSpace

\* the values the rung of the field names would give the card
WouldHoldBlank(card, names) ==
  /\ Rule(names) # 5
  /\ \/ Blank(Decorated(card))
     \/ QuestionKey(names) # AnswerKey(names) /\ Blank(card.question)

\* C5: a note that is built has no value that is empty after trimming, and a
\* card whose mapping would hold such a value gets an error and no note
C5_NoBlankValue ==
  pc = "mapped" =>
    /\ note.error = "none" =>
         \A k \in DOMAIN note.fields : ~Blank(note.fields[k])
    /\ WouldHoldBlank(input.card, input.modelFieldNames) =>
         /\ note.error \in {"incomplete", "emptyField"}
         /\ note.fields = NoFields

\* C5 witness: a card that passes the card validation with a blank answer and
\* no annotation is refused by the validation of the fields
C5_Witness ==
  /\ pc = "mapped"
  /\ input.card.question = <<"q">>
  /\ input.card.answer = <<" ">>
  /\ input.card.annotation = Undefined
  /\ note.error = "emptyField"
  /\ note.key = AnswerKey(input.modelFieldNames)
  /\ note.fields = NoFields

\* C16: a note that is built has exactly two keys, one holding the question
\* of the card and another one holding the answer with its annotation,
\* whatever the list of field names, two equal first names included
C16_TwoDistinctKeys ==
  (pc = "mapped" /\ note.error = "none") =>
    /\ Cardinality(DOMAIN note.fields) = 2
    /\ \E k, l \in DOMAIN note.fields :
         /\ k # l
         /\ note.fields[k] = input.card.question
         /\ note.fields[l] = Decorated(input.card)

-----------------------------------------------------------------------------
(* Claims checked under SpecModal *)

\* the errors of the field mapping of one card: the card validation, the
\* ladder and the validation of the fields
MappingErrors == {"incomplete", "noMapping", "emptyField"}

\* C6: once every callback of a click has come to its end, if the mapping of
\* one card failed then the notes of the cards whose mapping succeeded are
\* the notes of an addNotes request of that click
C6_SiblingsStillSent ==
  \A h \in DOMAIN clicks :
    LET run == clicks[h]
        built == {p \in DOMAIN run.notes : run.notes[p].error = "none"}
        failed == {p \in DOMAIN run.notes : run.notes[p].error \in MappingErrors}
    IN  (run.pending = {} /\ failed # {} /\ built # {}) =>
          \E r \in DOMAIN requests :
            /\ requests[r].click = h
            /\ \A p \in built :
                 \E q \in DOMAIN requests[r].notes :
                   requests[r].notes[q].fields = run.notes[p].fields

\* the step is a click on the add-to-Anki button, and the run it starts
IsClick == Len(clicks') = Len(clicks) + 1
Started == clicks'[Len(clicks')]

\* the click goes on to the requests only with a card selected and with a
\* question and an answer in every selected card; the list it works on is
\* the selected cards in the order of the cards
ClickRule ==
  IsClick =>
    /\ DOMAIN Started.list = 1..Cardinality({i \in DOMAIN cards : selectedCards[i]})
    /\ \A p \in DOMAIN Started.list : selectedCards[Started.list[p]]
    /\ \A p, q \in DOMAIN Started.list : p < q => Started.list[p] < Started.list[q]
    /\ Started.pc \in {"mapping", "adding"} =>
         /\ Started.list # <<>>
         /\ \A p \in DOMAIN Started.list :
              /\ cards[Started.list[p]].question # <<>>
              /\ cards[Started.list[p]].answer # <<>>

\* a note is built from the card at its place of the list
BuildRule ==
  \A h \in DOMAIN clicks : \A p \in DOMAIN clicks[h].notes :
    (clicks[h].notes[p].error = "pending" /\ clicks'[h].notes[p].error = "none") =>
      \E k \in DOMAIN clicks'[h].notes[p].fields :
        clicks'[h].notes[p].fields[k] = cards[clicks[h].list[p]].question

\* a request is the first one of its click, and its notes are the notes of
\* the list of that click, place by place
RequestRule ==
  requests' # requests =>
    \E h \in DOMAIN clicks :
      /\ \A r \in DOMAIN requests : requests[r].click # h
      /\ clicks[h].pc = "mapping"
      /\ Len(requests') = Len(requests) + 1
      /\ SubSeq(requests', 1, Len(requests)) = requests
      /\ requests'[Len(requests')].click = h
      /\ DOMAIN requests'[Len(requests')].notes = DOMAIN clicks[h].list
      /\ \A p \in DOMAIN clicks[h].list :
           /\ clicks'[h].notes[p].error = "none"
           /\ requests'[Len(requests')].notes[p].fields = clicks'[h].notes[p].fields

\* the defaults are set when the request of a click is answered with ids, and
\* written after that
SaveRule ==
  /\ (settings'.defaultDeck # settings.defaultDeck
        \/ settings'.defaultNoteType # settings.defaultNoteType) =>
       \E h \in DOMAIN clicks :
         /\ clicks[h].pc = "adding" /\ clicks'[h].pc = "saving"
         /\ \E r \in DOMAIN requests : requests[r].click = h
  /\ settings'.saved # settings.saved =>
       \E h \in DOMAIN clicks :
         /\ clicks[h].pc = "saving" /\ clicks'[h].pc = "done"
         /\ \E r \in DOMAIN requests : requests[r].click = h

\* C17: whatever the user edited and toggled before, an addNotes request is
\* sent only for a click made with a card selected and with a question and
\* an answer in every selected card; a click sends one request at most, with
\* the notes of the cards selected at the click in the order of the cards;
\* the default deck and note type are saved only once that request has been
\* answered without an error
C17_RequestsOfClicks ==
  [][pc = "open" => (ClickRule /\ BuildRule /\ RequestRule /\ SaveRule)]_vars

\* C17 witness: after an edit, with the first of two cards deselected, a
\* click sent the one request of the second card and the defaults were saved
C17_Witness ==
  /\ pc = "open"
  /\ Len(cards) = 2
  /\ edits = 1
  /\ selectedCards = <<FALSE, TRUE>>
  /\ Len(clicks) = 1
  /\ clicks[1].list = <<2>>
  /\ Len(requests) = 1
  /\ Len(requests[1].notes) = 1
  /\ settings.saved = 1

-----------------------------------------------------------------------------
(* Claims checked under SpecBlocks *)

\* the card of a block with nothing but a question and an answer
PlainCard(q, a) ==
  [question |-> q, answer |-> a, annotation |-> Undefined, tags |-> UndefinedList]

\* C3 (as claimed): n blocks 'Q: x_i' newline 'A: y_i' with x_i, y_i non-empty,
\* joined by blank lines, give exactly n Cards, the i-th with question x_i and
\* answer y_i, in the order of the blocks.
C3_BlocksAsClaimed ==
  (pc = "done" /\ \A i \in DOMAIN input : input[i].x # <<>> /\ input[i].y # <<>>) =>
    /\ Len(cards) = Len(input)
    /\ \A i \in DOMAIN input : cards[i] = PlainCard(input[i].x, input[i].y)

\* s holds a character that is not whitespace
Visible(s) == \E i \in DOMAIN s : s[i] \notin WhiteSpace

\* C3 (amended): n blocks 'Q: x_i' newline 'A: y_i' whose x_i and y_i each hold a
\* character that is not whitespace, joined by blank lines, give exactly n
\* Cards, the i-th with question x_i trimmed and answer y_i trimmed, in the
\* order of the blocks.
C3_BlocksTrimmed ==
  (pc = "done" /\ \A i \in DOMAIN input : Visible(input[i].x) /\ Visible(input[i].y)) =>
    /\ Len(cards) = Len(input)
    /\ \A i \in DOMAIN input :
         cards[i] = PlainCard(Trim(input[i].x), Trim(input[i].y))

\* C3's case: two blocks of different questions, one of them written with
\* whitespace around it, were parsed into their two cards
C3_Witness ==
  /\ pc = "done"
  /\ Len(input) = 2
  /\ Len(cards) = 2
  /\ cards[1].question # cards[2].question
  /\ \E i \in DOMAIN input : input[i].x # Trim(input[i].x)

-----------------------------------------------------------------------------
(* Claims checked under SpecTags *)

\* the maximal runs <<i, j>> of characters of t outside seps
Runs(t, seps) ==
  {r \in (DOMAIN t) \X (DOMAIN t) :
     /\ r[1] <= r[2]
     /\ \A k \in r[1]..r[2] : t[k] \notin seps
     /\ r[1] = 1 \/ t[r[1] - 1] \in seps
     /\ r[2] = Len(t) \/ t[r[2] + 1] \in seps}

\* the runs of R, trimmed, in their order in t, the blank ones dropped
RECURSIVE InOrder(_, _)
InOrder(t, R) ==
  IF R = {} THEN <<>>
  ELSE LET r == CHOOSE r \in R : \A q \in R : r[1] <= q[1]
           tag == Trim(SubSeq(t, r[1], r[2]))
       IN  (IF tag = <<>> THEN <<>> ELSE <<tag>>) \o InOrder(t, R \ {r})

\* the tags of a card, none when the card has no tags field
TagsOf(card) == IF card.tags = UndefinedList THEN <<>> ELSE card.tags

\* the one rule as claimed: with a '#' in the text, the tokens that follow each
\* '#'; without, the pieces between runs of whitespace or commas
ClaimedTags(t) ==
  IF \E k \in DOMAIN t : t[k] = "#"
  THEN InOrder(t, {r \in Runs(t, {"#"}) : r[1] > 1})
  ELSE InOrder(t, Runs(t, WhiteSpace \cup {","}))

\* the rule with the text before the first '#' counted as a token too
HashSplitTags(t) ==
  IF \E k \in DOMAIN t : t[k] = "#"
  THEN InOrder(t, Runs(t, {"#"}))
  ELSE InOrder(t, Runs(t, WhiteSpace \cup {","}))

\* C7 (as claimed): in both formats the tags are, when the tag text holds a
\* '#', the trimmed non-empty tokens that follow each '#', and otherwise the
\* pieces between runs of whitespace or commas; every tag is non-empty and the
\* tags keep their order.
C7_TagsAsClaimed ==
  pc = "done" =>
    /\ Len(cards) = 1
    /\ TagsOf(cards[1]) = ClaimedTags(input.tagsText)
    /\ \A k \in DOMAIN TagsOf(cards[1]) : TagsOf(cards[1])[k] # <<>>

\* C7 (amended): in both formats the tags are, when the tag text holds a '#',
\* the trimmed non-empty pieces between the '#' characters, the text before the
\* first '#' included, and otherwise the pieces between runs of whitespace or
\* commas; every tag is non-empty and the tags keep their order.
C7_TagsHashSplit ==
  pc = "done" =>
    /\ Len(cards) = 1
    /\ TagsOf(cards[1]) = HashSplitTags(input.tagsText)
    /\ \A k \in DOMAIN TagsOf(cards[1]) : TagsOf(cards[1])[k] # <<>>

\* C7's case: a table row whose tag text has no '#' gave two tags in order
C7_Witness ==
  /\ pc = "done"
  /\ input.in = "row"
  /\ input.tagsText = <<"a", ",", " ", "b">>
  /\ cards[1].tags = <<<<"a">>, <<"b">>>>

-----------------------------------------------------------------------------
(* Claims checked under SpecTable *)

\* the Card of a row split into cols: question, answer, the annotation and the
\* tags when their columns are there and not blank
RowCard(cols) ==
  [question |-> Trim(cols[1]),
   answer |-> Trim(cols[2]),
   annotation |-> IF Len(cols) >= 3 /\ Visible(cols[3]) THEN Trim(cols[3]) ELSE Undefined,
   tags |-> IF Len(cols) >= 4 /\ Visible(cols[4])
            THEN HashSplitTags(Trim(cols[4]))
            ELSE UndefinedList]

\* the columns of a line: on tabs if it has one, else on runs of two or more spaces
Columns(line) ==
  IF \E k \in DOMAIN line : line[k] = "\t"
  THEN SplitLit(line, Tab)
  ELSE SplitRuns(line, {" "}, 2)

\* row by row, one Card for each line that is not blank and splits into two
\* columns or more
RECURSIVE RowCards(_)
RowCards(rows) ==
  IF rows = <<>> THEN <<>>
  ELSE (IF Visible(Head(rows)) /\ Len(Columns(Head(rows))) >= 2
        THEN <<RowCard(Columns(Head(rows)))>>
        ELSE <<>>) \o RowCards(Tail(rows))

\* C8 (as claimed): under a header, when the text is not multi-line format,
\* the header gives no Card and each later non-empty line gives, in row order,
\* one Card if the line splits into at least 2 columns and none otherwise, with
\* question, answer, annotation and tags from columns 0 to 3.
C8_RowsAsClaimed ==
  (pc = "done" /\ format # "MultiLine") =>
    cards = RowCards(input.rows)

\* C8 (amended): the same, each line being trimmed before it is split: one
\* Card if the trimmed line splits into at least 2 columns, none otherwise.
C8_RowsTrimmed ==
  (pc = "done" /\ format # "MultiLine") =>
    cards = RowCards(MapTrim(input.rows))

\* C8's case: a table whose rows include one written with whitespace around it
\* and one of a single column gave the cards of its other rows
C8_Witness ==
  /\ pc = "done"
  /\ format = "Table"
  /\ Len(input.rows) = 3
  /\ Len(cards) = 2
  /\ \E k \in DOMAIN input.rows : input.rows[k] # Trim(input.rows[k])
  /\ cards[2].tags = <<<<"a">>, <<"b">>>>

-----------------------------------------------------------------------------
(* Claims checked under SpecFallback *)

\* the line matches the single-line pattern: a Q: with an A: somewhere after it
SingleLinePattern(line) ==
  \E q \in DOMAIN line : \E a \in (q + 2)..Len(line) :
    MatchAtCI(line, q, QMark) /\ MatchAtCI(line, a, AMark)

\* the positions of the line where a ':::' stands
Delimiters(line) == {i \in DOMAIN line : MatchAt(line, i, TripleColon)}

\* the piece before the first ':::'
FirstPiece(line) == SubSeq(line, 1, Min(Delimiters(line)) - 1)

\* the piece after the first ':::', up to the next ':::' or the end of the line
SecondPiece(line) ==
  LET from == Min(Delimiters(line)) + 3
      next == {i \in Delimiters(line) : i >= from}
  IN  SubSeq(line, from, IF next = {} THEN Len(line) ELSE Min(next) - 1)

\* the lines that give a Card: not blank, and of one of the two patterns
GivesCard(line) ==
  Visible(line) /\ (SingleLinePattern(line) \/ Delimiters(line) # {})

\* C9: in the fallback format the Cards are those of the non-empty lines that
\* match the single-line pattern or hold a ':::', one Card each and in line
\* order; the Card of a line that does not match the single-line pattern has
\* the first piece trimmed as question, the second piece trimmed as answer and
\* neither annotation nor tags; a line of neither pattern gives no Card.
C9_TripleColonLines ==
  (pc = "done" /\ format = "Fallback") =>
    LET giving == SelectSeq(input, GivesCard)
    IN  /\ Len(cards) = Len(giving)
        /\ \A k \in DOMAIN giving :
             ~SingleLinePattern(giving[k]) =>
               cards[k] = PlainCard(Trim(FirstPiece(giving[k])),
                                    Trim(SecondPiece(giving[k])))

\* C9's case: of three lines, one of three pieces, one of neither pattern and
\* one of the single-line pattern, the first and the last gave a Card
C9_Witness ==
  /\ pc = "done"
  /\ format = "Fallback"
  /\ Len(input) = 3
  /\ Cardinality(Delimiters(input[1])) = 2
  /\ ~GivesCard(input[2])
  /\ SingleLinePattern(input[3])
  /\ Len(cards) = 2
  /\ cards[1].answer = <<"y">>

-----------------------------------------------------------------------------
(* Claims checked under SpecMarkers *)

\* C11: a block gives the cards it gives when every marker is written in the
\* letter case of the code: the markers of the lines are read in any case
C11_MarkersInAnyCase ==
  pc = "done" => cards = parseAnkiCards(Join(AsCodeLines(input), Newline)).cards

-----------------------------------------------------------------------------
(* Claims checked under SpecSingleLine *)

\* the first Q: of the line, the first A: after it, and the first annotation:
\* or tags: after that A: (the end of the line when there is none)
FirstQ(line) == Min({i \in DOMAIN line : MatchAtCI(line, i, QMark)})
FirstAAfterQ(line) ==
  Min({i \in (FirstQ(line) + 2)..Len(line) : MatchAtCI(line, i, AMark)})
AnswerEnd(line) ==
  Min({i \in (FirstAAfterQ(line) + 2)..Len(line) :
         MatchAtCI(line, i, AnnotationMark) \/ MatchAtCI(line, i, TagsMark)}
      \cup {Len(line) + 1})

\* C13: a fallback line that matches the single-line pattern gives exactly one
\* Card: its question is the trimmed text between the first Q: and the first
\* A: after it, its answer the trimmed text from that A: to the first
\* annotation: or tags: after it or to the end of the line; the Card is
\* given when the question or the answer is empty too, and no Card is read
\* from a ':::' of the line
C13_SingleLineCard ==
  (pc = "done" /\ Visible(text) /\ SingleLinePattern(text)) =>
    /\ format = "Fallback"
    /\ Len(cards) = 1
    /\ cards[1].question = Trim(SubSeq(text, FirstQ(text) + 2, FirstAAfterQ(text) - 1))
    /\ cards[1].answer = Trim(SubSeq(text, FirstAAfterQ(text) + 2, AnswerEnd(text) - 1))

\* C13 witness: a line with a ':::' between its Q: and its A: and nothing
\* after the A: gave one Card, with the ':::' in its question and no answer
C13_Witness ==
  /\ pc = "done"
  /\ SingleLinePattern(text)
  /\ Delimiters(text) # {}
  /\ Len(cards) = 1
  /\ cards[1].question = <<"x", ":", ":", ":">>
  /\ cards[1].answer = <<>>

-----------------------------------------------------------------------------
(* Claims checked under SpecNote *)

-----------------------------------------------------------------------------
(* Claims checked under SpecScan *)

\* the lines of the reply that start a block: the first one and every line
\* that comes after a blank line
BlockStarts(ls) == {i \in DOMAIN ls : i = 1 \/ ls[i].break = <<"\n", "\n">>}

\* the lines of the block that starts at line i
BlockOf(ls, i) ==
  {j \in i..Len(ls) : \A k \in (i + 1)..j : k \notin BlockStarts(ls)}

\* the text of the last line of the block with the given marker, the empty
\* text when the block has no such line
LastOf(ls, block, mark) ==
  LET with == {j \in block : StartsWith(ls[j].line, mark)}
  IN  IF with = {} THEN <<>> ELSE Trim(Substring(ls[Max(with)].line, 3))

\* the blocks that give a Card: those with a question and an answer
Giving(ls) ==
  {i \in BlockStarts(ls) :
     /\ LastOf(ls, BlockOf(ls, i), QMark) # <<>>
     /\ LastOf(ls, BlockOf(ls, i), AMark) # <<>>}

\* C15: in the multi-line format every block gives one Card at most, so the
\* Cards are never more than the blocks; the Card of a block has the text of
\* the last Q: line and of the last A: line of the block, the earlier ones
\* being overwritten
C15_OneCardPerBlock ==
  (pc = "done" /\ format = "MultiLine") =>
    /\ Len(cards) <= Cardinality(BlockStarts(input))
    /\ Len(cards) = Cardinality(Giving(input))
    /\ \A i \in Giving(input) :
         LET k == Cardinality({j \in Giving(input) : j <= i})
         IN  /\ cards[k].question = LastOf(input, BlockOf(input, i), QMark)
             /\ cards[k].answer = LastOf(input, BlockOf(input, i), AMark)

\* C15 witness: two Q/A pairs with no blank line between them gave one Card,
\* with the question and the answer of the second pair
C15_Witness ==
  /\ pc = "done"
  /\ format = "MultiLine"
  /\ text = <<"Q", ":", " ", "x", "\n", "A", ":", " ", "y", "\n",
              "Q", ":", " ", "w", "\n", "A", ":", " ", "z">>
  /\ Len(cards) = 1
  /\ cards[1].question = <<"w">>
  /\ cards[1].answer = <<"z">>

====
